---- MODULE Spec2Model ----
(***************************************************************************)
(* takt: a step sequencer (Beat + Sampler) driven by an Ableton Push       *)
(* controller (MidiReceiver, PushInterface, PushUI).                       *)
(*                                                                         *)
(* Representation of the program's floats:                                 *)
(*   - times (time_per_step, offsets, beat_time) are integers counting     *)
(*     1/TimeUnits of a second, so by milliseconds are by*TimeUnits/1000   *)
(*     units and every time the model handles is exact;                    *)
(*   - velocity and speed are integers counting 1/ParamUnits, so the       *)
(*     default 1.0 is ParamUnits and value/30 is value units.              *)
(* int(x) of the source is truncation toward zero (Trunc).                 *)
(***************************************************************************)
EXTENDS Integers, Sequences, FiniteSets, TLC

(* ------------------------------------------------------------------ *)
(* Program constants                                                   *)
(* ------------------------------------------------------------------ *)
steps == 8
no_samples == 8
bpm == 125
sampling_rate == 44100
TimeUnits == 30000
ParamUnits == 30

NOTE_ON == 144
NOTE_OFF == 128
AFTERTOUCH == 160
CC == 176

COLOR_OFF == 0
COLOR_RUNNING == 5
COLOR_ON == 13

(* ------------------------------------------------------------------ *)
(* Bounds of the model and the inputs the environment draws from       *)
(* ------------------------------------------------------------------ *)
MaxDial == 2          \* dial events handled in one behaviour
MaxTimingOps == 2     \* Beat.change_timing calls in one behaviour

NoteInputs == {35, 36, 44, 100}      \* pads (0,0), (1,0) and the two notes next to the pad range
PadNoteInputs == {36, 44}            \* pads (0,0), (1,0)
DialInputs == {71, 72, 73, 74}       \* velocity, speed, timing and an unrouted dial
ByteInputs == {40, 70}               \* control-change data bytes: +40 and -58
LoadInputs == {0}                    \* sample slots that main() loads in the model
PlayLoadInputs == {0, 1}             \* sample slots loaded by a direct load_sample call
BeatPatternInputs == {0, 1}
BeatStepInputs == {0, 3}
TimingInputs == {1500, -1500, 6, 10800}   \* by = 50, -50, 0.2, 360 ms (three steps) in time units
PlayTimingInputs == {1500, -1500}    \* by = 50 ms, -50 ms
ProbeInputs == 0 .. 127              \* every MIDI data byte
(* parameter names given to the accessors: the two matrices, four other
   attributes of Sampler and a name that is no attribute *)
ParamNames == <<"velocity", "speed", "samples", "steps", "pos", "beat", "timing">>
ParamByInputs == {30, -15}           \* by = 1.0, -0.5 in parameter units

VARIABLES
  offsets,             \* Beat.offsets[pattern][step], time units
  pattern,             \* Beat.pattern[pattern][step]
  pattern_tables,      \* Beat.pattern_tables[pattern]: the set of indices holding 1.
  playing,             \* playing[pattern]: the TableRead of the pattern runs
  transport,           \* observer: "playing" after Sampler.start, "stopped" after Sampler.stop
  cursor,              \* index of the last sample at which a trigger fired (-1: none yet)
  samples,             \* Sampler.samples[slot]: a voice [loaded, mul, speed]; loaded = FALSE is None
  pos,                 \* Sampler.pos
  velocity,            \* Sampler.velocity[sample][step], parameter units
  speed,               \* Sampler.speed[sample][step], parameter units
  parameter_modified,  \* PushUI.parameter_modified: held pad -> modified flag
  midi_out,            \* messages the last handler sent to the device
  out_ctx,             \* execution context in which midi_out was sent
  exc,                 \* exception the last handler ended with ("none" if it returned)
  ret,                 \* value the last call returned (0 if it returns nothing)
  dispatched,          \* pad_down / pad_release / dial_change calls the last MIDI event dispatched
  fired,               \* observer: <<slot, pos read>> of every trigger() run by the last handler
  probe,               \* the byte under test of the decoder specifications
  last,                \* the last event handled
  held_at_down,        \* observer: per held pad, the step state at its pad_down, the dials and ticks since
  prev_pattern,        \* observer: Beat.pattern before the last event
  pos_window,          \* observer: pos before each of the last `steps` master ticks
  cycle_ticks,         \* observer: master ticks in the running buffer cycle
  done_cycle_ticks,    \* observer: master ticks of the last completed buffer cycle (-1: none)
  n_dial, n_timing     \* event budgets

beatVars == <<offsets, pattern, pattern_tables, playing, transport, cursor>>
samplerVars == <<samples, pos, velocity, speed>>
uiVars == <<parameter_modified, midi_out, out_ctx>>
obsVars == <<exc, ret, dispatched, fired, probe, last, held_at_down, prev_pattern, pos_window,
             cycle_ticks, done_cycle_ticks>>
budgetVars == <<n_dial, n_timing>>
vars == <<beatVars, samplerVars, uiVars, obsVars, budgetVars>>

Patterns == 0..no_samples          \* sample patterns and the reserved last one
Slots == 0..(no_samples - 1)
Steps == 0..(steps - 1)
master == no_samples               \* pos_all_on_pattern

(* int(): truncation toward zero of n/d, d > 0 *)
Trunc(n, d) == IF n >= 0 THEN n \div d ELSE -((-n) \div d)

(* round(): nearest integer of n/d, d > 0 (halves away from zero never occur
   differently from Python's half-to-even within the inputs used) *)
Round(n, d) == IF n >= 0 THEN (2 * n + d) \div (2 * d) ELSE -((2 * (-n) + d) \div (2 * d))

SetMin(S) == CHOOSE x \in S : \A y \in S : x <= y

(* ------------------------------------------------------------------ *)
(* Beat                                                                *)
(* ------------------------------------------------------------------ *)
time_per_step == (60 * TimeUnits) \div (bpm * 4)
duration == steps * time_per_step
TableSize == Trunc(sampling_rate * duration, TimeUnits)

(* The program state a handler works on: the fields of Beat, Sampler and
   PushUI, the messages sent so far and the pending exception. *)
State(o, p, t, sm, ps, v, sp, pm) ==
  [offsets |-> o, pattern |-> p, pattern_tables |-> t, samples |-> sm, pos |-> ps,
   velocity |-> v, speed |-> sp, parameter_modified |-> pm, out |-> <<>>, exc |-> "none",
   ret |-> 0, calls |-> <<>>, fired |-> <<>>]

Raise(S, e) == [S EXCEPT !.exc = e]

(* pyo table.put(value, pos): a position at or past the table size is rejected,
   a negative one counts from the end. *)
put(S, pat, value, index) ==
  IF index >= TableSize \/ index < -TableSize THEN Raise(S, "IndexError")
  ELSE LET i == IF index < 0 THEN TableSize + index ELSE index
       IN [S EXCEPT !.pattern_tables[pat] =
                      IF value = 1 THEN @ \cup {i} ELSE @ \ {i}]

beat_time(S, pat, step) == (time_per_step * step) + S.offsets[pat][step]

TableIndex(S, pat, step) == Trunc(sampling_rate * beat_time(S, pat, step), TimeUnits)

Beat_is_on(S, pat, step) == S.pattern[pat][step]

Beat_activate(S, pat, step) ==
  IF pat \notin Patterns \/ step \notin Steps THEN Raise(S, "IndexError")
  ELSE LET S1 == put(S, pat, 1, TableIndex(S, pat, step))
       IN IF S1.exc # "none" THEN S1 ELSE [S1 EXCEPT !.pattern[pat][step] = TRUE]

(* deactivate that clears the index in every table *)
Beat_deactivate_every_table(S, pat, step) ==
  IF pat \notin Patterns \/ step \notin Steps THEN Raise(S, "IndexError")
  ELSE LET i == TableIndex(S, pat, step)
       IN [S EXCEPT !.pattern_tables = [p \in Patterns |-> @[p] \ {i}],
                    !.pattern[pat][step] = FALSE]

Beat_deactivate(S, pat, step) ==
  IF pat \notin Patterns \/ step \notin Steps THEN Raise(S, "IndexError")
  ELSE LET S1 == put(S, pat, 0, TableIndex(S, pat, step))
       IN IF S1.exc # "none" THEN S1 ELSE [S1 EXCEPT !.pattern[pat][step] = FALSE]

(* toggle that never looks at the state *)
Beat_toggle_always_on(S, pat, step) == Beat_activate(S, pat, step)

Beat_toggle(S, pat, step) ==
  IF pat \notin Patterns \/ step \notin Steps THEN Raise(S, "IndexError")
  ELSE IF ~Beat_is_on(S, pat, step) THEN Beat_activate(S, pat, step)
       ELSE Beat_deactivate(S, pat, step)

Beat_change_timing(S, pat, step, by) ==
  LET S1 == Beat_deactivate(S, pat, step)
      S2 == [S1 EXCEPT !.offsets[pat][step] = @ + by]
  IN IF S1.exc # "none" THEN S1 ELSE Beat_activate(S2, pat, step)

(* ------------------------------------------------------------------ *)
(* PushInterface: device output                                        *)
(* ------------------------------------------------------------------ *)
convert_midi_to_pad_position(note) ==
  LET base == note - 36
  IN <<base \div 8, base % 8>>

(* the LED mapping without the base note *)
convert_pad_position_to_midi_no_base(row, step) == row * 8 + step

convert_pad_position_to_midi(row, step) == row * 8 + step + 36

noteout(S, note, value) ==
  [S EXCEPT !.out = Append(@, [msg |-> "noteout", data |-> <<note, value>>])]

sysexout(S, data) ==
  [S EXCEPT !.out = Append(@, [msg |-> "sysex", data |-> data])]

set_pad_color(S, row, step, value) ==
  noteout(S, convert_pad_position_to_midi(row, step), value)

clear_display_line(S, line) ==
  sysexout(S, <<240, 71, 127, 21, 28 + line, 0, 0, 247>>)

(* text is the sequence of ord(x) of the characters *)
write_display_text(S, line, offset, text) ==
  sysexout(S, <<240, 71, 127, 21, 24 + line, 0, Len(text) + 1, offset>> \o text \o <<247>>)

TextVelocity == <<118, 101, 108, 111, 99, 105, 116, 121>>
TextSpeed == <<115, 112, 101, 101, 100>>
TextTiming == <<116, 105, 109, 105, 110, 103>>

(* ------------------------------------------------------------------ *)
(* Sampler                                                             *)
(* ------------------------------------------------------------------ *)
(* the attributes a Sampler instance answers to (getattr / method lookup) *)
SamplerAttributes ==
  {"steps", "samples", "callback", "pos", "velocity", "speed", "beat",
   "_create_parameter_matrix", "load_sample", "start", "stop", "_step", "trigger",
   "toggle", "is_on", "change_velocity", "change_speed", "change_parameter",
   "get_parameter_value"}

create_parameter_matrix(value) == [s \in Slots |-> [k \in Steps |-> value]]

Sampler_is_on(S, sample_pos, step) == Beat_is_on(S, sample_pos, step)

Sampler_toggle(S, sample_pos, step) == Beat_toggle(S, sample_pos, step)

(* getattr(self, parameter) and the subscription matrix[sample_pos][step]: only
   velocity and speed are matrices; an int, a method, the Beat and an empty slot
   of samples take no index *)
change_parameter(S, parameter, sample_pos, step, by) ==
  IF parameter \notin SamplerAttributes THEN Raise(S, "AttributeError")
  ELSE IF parameter \notin {"velocity", "speed"} THEN Raise(S, "TypeError")
  ELSE IF sample_pos \notin Slots \/ step \notin Steps THEN Raise(S, "IndexError")
  ELSE IF parameter = "velocity"
       THEN [S EXCEPT !.velocity[sample_pos][step] = @ + by,
                      !.ret = S.velocity[sample_pos][step] + by]
       ELSE [S EXCEPT !.speed[sample_pos][step] = @ + by,
                      !.ret = S.speed[sample_pos][step] + by]

get_parameter_value(S, parameter, sample_pos, step) ==
  IF parameter \notin SamplerAttributes THEN Raise(S, "AttributeError")
  ELSE IF parameter \notin {"velocity", "speed"} THEN Raise(S, "TypeError")
  ELSE IF sample_pos \notin Slots \/ step \notin Steps THEN Raise(S, "IndexError")
  ELSE IF parameter = "velocity"
       THEN [S EXCEPT !.ret = S.velocity[sample_pos][step]]
       ELSE [S EXCEPT !.ret = S.speed[sample_pos][step]]

(* change_velocity on a matrix whose rows are one shared list *)
change_velocity_shared_rows(S, sample_pos, step, by) ==
  IF sample_pos \notin Slots \/ step \notin Steps THEN Raise(S, "IndexError")
  ELSE [S EXCEPT !.velocity = [r \in Slots |-> [@[r] EXCEPT ![step] = @ + by]]]

change_velocity(S, sample_pos, step, by) ==
  IF sample_pos \notin Slots \/ step \notin Steps THEN Raise(S, "IndexError")
  ELSE [S EXCEPT !.velocity[sample_pos][step] = @ + by]

change_speed(S, sample_pos, step, by) ==
  IF sample_pos \notin Slots \/ step \notin Steps THEN Raise(S, "IndexError")
  ELSE [S EXCEPT !.speed[sample_pos][step] = @ + by]

None == [loaded |-> FALSE, mul |-> 0, speed |-> 0]

(* pyo.SfPlayer(path, speed=1, loop=False): mul defaults to 1 *)
SfPlayer == [loaded |-> TRUE, mul |-> ParamUnits, speed |-> ParamUnits]

(* load_sample that empties the slot before it raises *)
load_sample_clears_slot(S, isfile, sample_pos) ==
  IF ~isfile THEN Raise([S EXCEPT !.samples[sample_pos] = None], "NotFoundException")
  ELSE [S EXCEPT !.samples[sample_pos] = SfPlayer]

load_sample(S, isfile, sample_pos) ==
  IF ~isfile THEN Raise(S, "NotFoundException")
  ELSE [S EXCEPT !.samples[sample_pos] = SfPlayer]

trigger(S, sample_pos) ==
  LET sample == S.samples[sample_pos]
  IN IF sample = None THEN S
     ELSE [S EXCEPT !.samples[sample_pos] =
                      [loaded |-> TRUE,
                       mul |-> S.velocity[sample_pos][S.pos],
                       speed |-> S.speed[sample_pos][S.pos]],
                    !.fired = Append(@, <<sample_pos, S.pos>>)]

(* ------------------------------------------------------------------ *)
(* PushUI                                                              *)
(* ------------------------------------------------------------------ *)
draw(S, row, step) ==
  IF step = S.pos THEN set_pad_color(S, row, step, COLOR_RUNNING)
  ELSE IF Sampler_is_on(S, row, step) THEN set_pad_color(S, row, step, COLOR_ON)
       ELSE set_pad_color(S, row, step, COLOR_OFF)

RECURSIVE step_draw_rows(_, _, _)
step_draw_rows(S, i, previous_pos) ==
  IF i >= 8 THEN S
  ELSE step_draw_rows(draw(draw(S, i, previous_pos), i, S.pos), i + 1, previous_pos)

RECURSIVE step_clear_lines(_, _)
step_clear_lines(S, line) ==
  IF line >= 4 THEN S ELSE step_clear_lines(clear_display_line(S, line), line + 1)

PushUI_step(S) ==
  LET previous_pos == IF S.pos - 1 < 0 THEN 7 ELSE S.pos - 1
      S1 == step_draw_rows(S, 0, previous_pos)
      S2 == step_clear_lines(S1, 0)
      S3 == write_display_text(S2, 0, 0, TextVelocity)
      S4 == write_display_text(S3, 0, 11, TextSpeed)
  IN write_display_text(S4, 0, 18, TextTiming)

(* _step that advances the cursor twice *)
Sampler_step_twice(S) ==
  PushUI_step([S EXCEPT !.pos = (S.pos + 2) % steps])

(* Sampler._step with callback = PushUI.step (ui.py:20) *)
Sampler_step(S) ==
  PushUI_step([S EXCEPT !.pos = (S.pos + 1) % steps])

pad_down(S, row, step) ==
  [S EXCEPT !.parameter_modified =
     [k \in (DOMAIN @) \cup {<<row, step>>} |->
        IF k = <<row, step>> THEN FALSE ELSE @[k]]]

(* pad_release that never toggles *)
pad_release_no_toggle(S, row, step) ==
  IF <<row, step>> \notin DOMAIN S.parameter_modified THEN Raise(S, "KeyError")
  ELSE [S EXCEPT !.parameter_modified = [k \in (DOMAIN @) \ {<<row, step>>} |-> @[k]]]

pad_release(S, row, step) ==
  IF <<row, step>> \notin DOMAIN S.parameter_modified THEN Raise(S, "KeyError")
  ELSE LET S1 == IF ~S.parameter_modified[<<row, step>>]
                 THEN LET T == Sampler_toggle(S, row, step)
                      IN IF T.exc # "none" THEN T ELSE draw(T, row, step)
                 ELSE S
       IN IF S1.exc # "none" THEN S1
          ELSE [S1 EXCEPT !.parameter_modified =
                  [k \in (DOMAIN @) \ {<<row, step>>} |-> @[k]]]

(* one iteration of the loop of dial_change; change is value/30 in parameter units,
   change*100 milliseconds are change*100*TimeUnits/(1000*ParamUnits) time units *)
(* the loop body without the assignment of the modified flag *)
dial_change_pad_no_flag(S, dial_id, change, row, step) ==
  IF dial_id = 71 THEN change_velocity(S, row, step, change)
  ELSE IF dial_id = 72 THEN change_speed(S, row, step, change)
  ELSE IF dial_id = 73 THEN Raise(S, "AttributeError")
  ELSE S

dial_change_pad(S, dial_id, change, row, step) ==
  LET S1 == IF dial_id = 71 THEN change_velocity(S, row, step, change)
            ELSE IF dial_id = 72 THEN change_speed(S, row, step, change)
            ELSE IF dial_id = 73
                 THEN IF "change_timing" \in SamplerAttributes
                      THEN Beat_change_timing(S, row, step,
                                              (change * 100 * TimeUnits) \div (1000 * ParamUnits))
                      ELSE Raise(S, "AttributeError")
            ELSE S
  IN IF S1.exc # "none" THEN S1
     ELSE [S1 EXCEPT !.parameter_modified[<<row, step>>] = TRUE]

(* the loop over the held pads; no iteration raises unless all do, so the
   dict's insertion order does not show and the pads are taken in a fixed order *)
RECURSIVE dial_change_loop(_, _, _, _)
dial_change_loop(S, pads, dial_id, change) ==
  IF pads = {} \/ S.exc # "none" THEN S
  ELSE LET k == CHOOSE x \in pads :
                  \A y \in pads : x[1] < y[1] \/ (x[1] = y[1] /\ x[2] <= y[2])
       IN dial_change_loop(dial_change_pad(S, dial_id, change, k[1], k[2]),
                           pads \ {k}, dial_id, change)

dial_change(S, dial_id, value) ==
  dial_change_loop(S, DOMAIN S.parameter_modified, dial_id, value)

(* ------------------------------------------------------------------ *)
(* PushInterface / MidiReceiver: input                                 *)
(* ------------------------------------------------------------------ *)
note_on(S, note, vel) ==
  IF 36 <= note /\ note <= 99
  THEN LET rs == convert_midi_to_pad_position(note)
       IN pad_down([S EXCEPT !.calls = Append(@, <<"pad_down", rs[1], rs[2]>>)], rs[1], rs[2])
  ELSE S

note_off(S, note, vel) ==
  IF 36 <= note /\ note <= 99
  THEN LET rs == convert_midi_to_pad_position(note)
       IN pad_release([S EXCEPT !.calls = Append(@, <<"pad_release", rs[1], rs[2]>>)],
                      rs[1], rs[2])
  ELSE S

(* control_change that takes byte 64 for a positive step *)
control_change_boundary(S, data1, data2) ==
  LET change == IF data2 <= 64 THEN data2 ELSE data2 - 128
  IN dial_change([S EXCEPT !.calls = Append(@, <<"dial_change", data1, change>>)],
                 data1, change)

control_change(S, data1, data2) ==
  LET change == IF data2 < 64 THEN data2 ELSE data2 - 128
  IN dial_change([S EXCEPT !.calls = Append(@, <<"dial_change", data1, change>>)],
                 data1, change)

midi_event(S, status, data1, data2) ==
  IF status = NOTE_ON THEN note_on(S, data1, data2)
  ELSE IF status = NOTE_OFF THEN note_off(S, data1, data2)
  ELSE IF status = AFTERTOUCH THEN S
  ELSE IF status = CC THEN control_change(S, data1, data2)
  ELSE S

(* ------------------------------------------------------------------ *)
(* Construction: PushUI.__init__ -> Sampler.__init__ -> Beat.__init__  *)
(* ------------------------------------------------------------------ *)
RECURSIVE activate_all(_, _)
activate_all(S, step) ==
  IF step >= steps THEN S ELSE activate_all(Beat_activate(S, master, step), step + 1)

Constructed ==
  activate_all(State([p \in Patterns |-> [k \in Steps |-> 0]],
                     [p \in Patterns |-> [k \in Steps |-> FALSE]],
                     [p \in Patterns |-> {}],
                     [s \in Slots |-> None],
                     0,
                     create_parameter_matrix(ParamUnits),
                     create_parameter_matrix(ParamUnits),
                     << >>),
               0)

NoSnap == [held |-> FALSE, on |-> FALSE, vel |-> 0, spd |-> 0, ticked |-> FALSE, dials |-> <<>>]

(* an event record; rep is set by the Beat API calls only *)
Event(op, a, b, c, snap) ==
  [op |-> op, a |-> a, b |-> b, c |-> c, snap |-> snap, rep |-> FALSE]

ConstructedProgram ==
  /\ offsets = Constructed.offsets
  /\ pattern = Constructed.pattern
  /\ pattern_tables = Constructed.pattern_tables
  /\ playing = [p \in Patterns |-> FALSE]
  /\ transport = "stopped"
  /\ cursor = -1
  /\ samples = Constructed.samples
  /\ pos = Constructed.pos
  /\ velocity = Constructed.velocity
  /\ speed = Constructed.speed
  /\ parameter_modified = Constructed.parameter_modified
  /\ midi_out = <<>>
  /\ out_ctx = "none"
  /\ exc = "none"
  /\ ret = 0
  /\ dispatched = <<>>
  /\ fired = <<>>
  /\ last = [op |-> "init", a |-> 0, b |-> 0, c |-> 0, snap |-> NoSnap, rep |-> FALSE]
  /\ held_at_down = << >>
  /\ prev_pattern = Constructed.pattern
  /\ pos_window = <<>>
  /\ cycle_ticks = 0
  /\ done_cycle_ticks = -1
  /\ n_dial = 0
  /\ n_timing = 0

Init == ConstructedProgram /\ probe = 0

(* the constructed program and one byte to decode *)
InitProbe == ConstructedProgram /\ probe \in ProbeInputs

(* the program state before a handler runs *)
Cur == State(offsets, pattern, pattern_tables, samples, pos, velocity, speed,
             parameter_modified)

(* the program state after a handler that ran in context ctx *)
Commit(S, ctx) ==
  /\ offsets' = S.offsets
  /\ pattern' = S.pattern
  /\ pattern_tables' = S.pattern_tables
  /\ samples' = S.samples
  /\ pos' = S.pos
  /\ velocity' = S.velocity
  /\ speed' = S.speed
  /\ parameter_modified' = S.parameter_modified
  /\ midi_out' = S.out
  /\ out_ctx' = IF S.out = <<>> THEN "none" ELSE ctx
  /\ exc' = S.exc
  /\ ret' = S.ret
  /\ dispatched' = S.calls
  /\ fired' = S.fired
  /\ prev_pattern' = pattern
  /\ UNCHANGED probe

(* ------------------------------------------------------------------ *)
(* Control-event context: the MIDI callback                            *)
(* ------------------------------------------------------------------ *)
Snap(S, k) ==
  IF k[1] \in Slots /\ k[2] \in Steps
  THEN [held |-> TRUE, on |-> Sampler_is_on(S, k[1], k[2]),
        vel |-> S.velocity[k[1]][k[2]], spd |-> S.speed[k[1]][k[2]],
        ticked |-> FALSE, dials |-> <<>>]
  ELSE [NoSnap EXCEPT !.held = TRUE]

SnapOf(k) == IF k \in DOMAIN held_at_down THEN held_at_down[k] ELSE NoSnap

NoteOn(note) ==
  LET S == midi_event(Cur, NOTE_ON, note, 100)
      pad == convert_midi_to_pad_position(note)
  IN /\ Commit(S, "control")
     /\ last' = Event("note_on", note, 100, 0, NoSnap)
     /\ held_at_down' = [k \in DOMAIN S.parameter_modified |->
                           IF k \in DOMAIN held_at_down /\ k # pad
                           THEN held_at_down[k] ELSE Snap(Cur, k)]
     /\ UNCHANGED <<playing, transport, cursor, pos_window, cycle_ticks, done_cycle_ticks, budgetVars>>

NoteOff(note) ==
  LET S == midi_event(Cur, NOTE_OFF, note, 0)
      pad == convert_midi_to_pad_position(note)
  IN /\ Commit(S, "control")
     /\ last' = Event("note_off", note, 0, 0, SnapOf(pad))
     /\ held_at_down' = [k \in DOMAIN S.parameter_modified |-> SnapOf(k)]
     /\ UNCHANGED <<playing, transport, cursor, pos_window, cycle_ticks, done_cycle_ticks, budgetVars>>

ControlChange(data1, data2) ==
  LET S == midi_event(Cur, CC, data1, data2)
      change == IF data2 < 64 THEN data2 ELSE data2 - 128
  IN /\ n_dial < MaxDial
     /\ n_dial' = n_dial + 1
     /\ Commit(S, "control")
     /\ last' = Event("control_change", data1, data2, 0, NoSnap)
     /\ held_at_down' = [k \in DOMAIN held_at_down |->
                           [held_at_down[k] EXCEPT !.dials = Append(@, <<data1, change>>)]]
     /\ UNCHANGED <<playing, transport, cursor, pos_window, cycle_ticks, done_cycle_ticks, n_timing>>

(* ------------------------------------------------------------------ *)
(* main(): load_sample and start                                       *)
(* ------------------------------------------------------------------ *)
LoadSample(isfile, sample_pos) ==
  LET S == load_sample(Cur, isfile, sample_pos)
  IN /\ Commit(S, "control")
     /\ last' = Event("load_sample", sample_pos, IF isfile THEN 1 ELSE 0, 0, NoSnap)
     /\ UNCHANGED <<playing, transport, cursor, held_at_down, pos_window, cycle_ticks,
                    done_cycle_ticks, budgetVars>>

Running == {p \in Patterns : playing[p]}

(* Beat.play: every TableRead starts reading at the start of its table *)
Beat_play == [p \in Patterns |-> TRUE]

(* Beat.stop that leaves the last table, the master clock, running *)
Beat_stop_sample_tables == [p \in Patterns |-> p = master]

(* Beat.stop: every TableRead stops *)
Beat_stop == [p \in Patterns |-> FALSE]

Transport(op, run) ==
  /\ playing' = run
  /\ transport' = IF op = "start" THEN "playing" ELSE "stopped"
  /\ last' = Event(op, 0, 0, 0, NoSnap)
  /\ exc' = "none"
  /\ ret' = 0
  /\ dispatched' = <<>>
  /\ fired' = <<>>
  /\ prev_pattern' = pattern
  /\ midi_out' = <<>>
  /\ out_ctx' = "none"
  /\ UNCHANGED <<offsets, pattern, pattern_tables, samplerVars, parameter_modified, probe,
                 held_at_down, pos_window, done_cycle_ticks, budgetVars>>

(* Sampler.start -> Beat.play *)
Start ==
  /\ Running = {}
  /\ Transport("start", Beat_play)
  /\ cursor' = -1
  /\ cycle_ticks' = 0

(* Sampler.stop -> Beat.stop *)
Stop ==
  /\ Running # {}
  /\ Transport("stop", Beat_stop)
  /\ UNCHANGED <<cursor, cycle_ticks>>

(* ------------------------------------------------------------------ *)
(* Real-time clock context: the TableRead cursors and their TrigFuncs  *)
(* ------------------------------------------------------------------ *)
AllMarkers == UNION {pattern_tables[p] : p \in Running}

Ahead == {i \in AllMarkers : i > cursor}

(* the cursors wrap at the end of the buffer *)
Wrapped == Ahead = {}

NextIndex == IF Wrapped THEN SetMin(AllMarkers) ELSE SetMin(Ahead)

(* register_callback / register_step_callback: Sampler.__init__ binds
   trigger(sample_pos=p) to pattern p and _step to the last pattern *)
callback(S, pat) == IF pat = master THEN Sampler_step(S) ELSE trigger(S, pat)

(* the TrigFuncs run in the order they were created, pattern 0 first *)
RECURSIVE fire_triggers(_, _, _)
fire_triggers(S, pat, index) ==
  IF pat > no_samples THEN S
  ELSE fire_triggers(IF playing[pat] /\ index \in S.pattern_tables[pat]
                     THEN callback(S, pat) ELSE S,
                     pat + 1, index)

(* the cursors advance to the next sample index at which some table holds 1 *)
Tick ==
  LET S == fire_triggers(Cur, 0, NextIndex)
      stepped == playing[master] /\ NextIndex \in pattern_tables[master]
      n == IF stepped THEN 1 ELSE 0
      w == IF stepped THEN Append(pos_window, pos) ELSE pos_window
  IN /\ AllMarkers # {}
     /\ cursor' = NextIndex
     /\ Commit(S, "clock")
     /\ last' = Event("tick", NextIndex, n, 0, NoSnap)
     /\ pos_window' = IF Len(w) > steps THEN Tail(w) ELSE w
     /\ cycle_ticks' = IF Wrapped THEN n ELSE cycle_ticks + n
     /\ done_cycle_ticks' = IF Wrapped /\ cursor >= 0 THEN cycle_ticks ELSE done_cycle_ticks
     /\ held_at_down' = [k \in DOMAIN held_at_down |->
                           [held_at_down[k] EXCEPT !.ticked = @ \/ stepped]]
     /\ UNCHANGED <<playing, transport, budgetVars>>

(* ------------------------------------------------------------------ *)
(* The Beat API called directly                                        *)
(* ------------------------------------------------------------------ *)
(* last.rep tells that the call before this one was the same call *)
BeatCall(S, op, pat, step, by) ==
  /\ Commit(S, "control")
  /\ last' = [Event(op, pat, step, by, NoSnap) EXCEPT
                !.rep = last.op = op /\ last.a = pat /\ last.b = step /\ last.c = by]
  /\ UNCHANGED <<playing, transport, cursor, held_at_down, pos_window, cycle_ticks, done_cycle_ticks,
                 n_dial>>

BeatActivate(pat, step) ==
  /\ BeatCall(Beat_activate(Cur, pat, step), "activate", pat, step, 0)
  /\ UNCHANGED n_timing

BeatDeactivate(pat, step) ==
  /\ BeatCall(Beat_deactivate(Cur, pat, step), "deactivate", pat, step, 0)
  /\ UNCHANGED n_timing

BeatToggle(pat, step) ==
  /\ BeatCall(Sampler_toggle(Cur, pat, step), "toggle", pat, step, 0)
  /\ UNCHANGED n_timing

BeatChangeTiming(pat, step, by) ==
  /\ n_timing < MaxTimingOps
  /\ n_timing' = n_timing + 1
  /\ BeatCall(Beat_change_timing(Cur, pat, step, by), "change_timing", pat, step, by)

(* ------------------------------------------------------------------ *)
(* The generic parameter accessors called directly                     *)
(* ------------------------------------------------------------------ *)
ChangeParameter(n, sample_pos, step, by) ==
  /\ n_dial < MaxDial
  /\ n_dial' = n_dial + 1
  /\ Commit(change_parameter(Cur, ParamNames[n], sample_pos, step, by), "control")
  /\ last' = Event("change_parameter", n, sample_pos, step, NoSnap)
  /\ UNCHANGED <<playing, transport, cursor, held_at_down, pos_window, cycle_ticks,
                 done_cycle_ticks, n_timing>>

GetParameterValue(n, sample_pos, step) ==
  /\ Commit(get_parameter_value(Cur, ParamNames[n], sample_pos, step), "control")
  /\ last' = Event("get_parameter_value", n, sample_pos, step, NoSnap)
  /\ UNCHANGED <<playing, transport, cursor, held_at_down, pos_window, cycle_ticks,
                 done_cycle_ticks, budgetVars>>

(* ------------------------------------------------------------------ *)
(* Specifications                                                      *)
(* ------------------------------------------------------------------ *)
(* the running program: pads, the timing dial, sample loading and the clock *)
Next ==
  \/ \E note \in PadNoteInputs : NoteOn(note)
  \/ \E note \in PadNoteInputs : NoteOff(note)
  \/ \E data2 \in ByteInputs : ControlChange(73, data2)
  \/ \E isfile \in BOOLEAN, sample_pos \in LoadInputs : LoadSample(isfile, sample_pos)
  \/ Start
  \/ Tick

Spec == Init /\ [][Next]_vars

(* the controller alone: pads and every dial *)
NextUI ==
  \/ \E note \in NoteInputs : NoteOn(note)
  \/ \E note \in NoteInputs : NoteOff(note)
  \/ \E data1 \in DialInputs, data2 \in ByteInputs : ControlChange(data1, data2)

SpecUI == Init /\ [][NextUI]_vars

(* the trigger engine alone *)
NextBeat ==
  \/ \E pat \in BeatPatternInputs, step \in BeatStepInputs : BeatActivate(pat, step)
  \/ \E pat \in BeatPatternInputs, step \in BeatStepInputs : BeatDeactivate(pat, step)
  \/ \E pat \in BeatPatternInputs, step \in BeatStepInputs : BeatToggle(pat, step)
  \/ \E pat \in BeatPatternInputs, step \in BeatStepInputs, by \in TimingInputs :
        BeatChangeTiming(pat, step, by)

SpecBeat == Init /\ [][NextBeat]_vars

(* the sampler engine: loading, transport, the clock and edits of pattern 0 *)
NextPlay ==
  \/ \E isfile \in BOOLEAN, sample_pos \in PlayLoadInputs : LoadSample(isfile, sample_pos)
  \/ \E step \in BeatStepInputs : BeatToggle(0, step)
  \/ \E by \in PlayTimingInputs : BeatChangeTiming(0, 0, by)
  \/ Start
  \/ Stop
  \/ Tick

SpecPlay == Init /\ [][NextPlay]_vars

(* the generic parameter accessors alone *)
NextParam ==
  \/ \E n \in DOMAIN ParamNames, sample_pos \in BeatPatternInputs, step \in BeatStepInputs,
        by \in ParamByInputs : ChangeParameter(n, sample_pos, step, by)
  \/ \E n \in DOMAIN ParamNames, sample_pos \in BeatPatternInputs, step \in BeatStepInputs :
        GetParameterValue(n, sample_pos, step)

SpecParam == Init /\ [][NextParam]_vars

(* the MIDI decoder applied to one byte, as a note and as a dial value *)
NextProbe ==
  \/ NoteOn(probe)
  \/ NoteOff(probe)
  \/ \E data1 \in DialInputs : ControlChange(data1, probe)

SpecProbe == InitProbe /\ [][NextProbe]_vars

(* ------------------------------------------------------------------ *)
(* Properties                                                          *)
(* ------------------------------------------------------------------ *)
PadOf(note) == convert_midi_to_pad_position(note)

Delta(data2) == IF data2 < 64 THEN data2 ELSE data2 - 128

Held == DOMAIN parameter_modified

(* a table position as put takes it: negative positions count from the end *)
Wrap(i) == IF i < 0 THEN TableSize + i ELSE i

(* C1: a pad_down followed by the pad_release of the same pad, with no dial_change
   in between, flips is_on of that pad exactly once and leaves the pad Idle,
   whatever other pads are held and whatever master ticks interleave. *)
C1_TapToggles ==
  (last.op = "note_off" /\ last.snap.held /\ last.snap.dials = <<>>) =>
     LET pad == PadOf(last.a)
     IN /\ exc = "none"
        /\ prev_pattern[pad[1]][pad[2]] = last.snap.on
        /\ pattern[pad[1]][pad[2]] = ~last.snap.on
        /\ pad \notin Held

C1_Witness ==
  /\ last.op = "note_off" /\ last.snap.held /\ last.snap.dials = <<>>
  /\ last.snap.on
  /\ ~pattern[PadOf(last.a)[1]][PadOf(last.a)[2]]
  /\ last.snap.ticked
  /\ Held # {}

(* C2: pad_down, dial_change(71, d), pad_release of the same pad changes the
   velocity of the pad by exactly d/30 and leaves is_on of the pad as it was
   before the pad_down; the pad is Idle afterwards. *)
C2_HoldEditsVelocity ==
  (last.op = "note_off" /\ last.snap.held /\ Len(last.snap.dials) = 1
     /\ last.snap.dials[1][1] = 71) =>
     LET pad == PadOf(last.a)
         d == last.snap.dials[1][2]
     IN /\ exc = "none"
        /\ (velocity[pad[1]][pad[2]] - last.snap.vel) * 30 = d * ParamUnits
        /\ pattern[pad[1]][pad[2]] = last.snap.on
        /\ pad \notin Held

C2_Witness ==
  /\ last.op = "note_off" /\ last.snap.held
  /\ last.snap.dials = << <<71, 40>> >>
  /\ velocity[PadOf(last.a)[1]][PadOf(last.a)[2]] = last.snap.vel + 40
  /\ ~pattern[PadOf(last.a)[1]][PadOf(last.a)[2]]

(* C3: while a pad is held, dial_change(73, d) completes without error, moves the
   stored offset of every held pad by d/30*100 milliseconds and makes the pad
   HeldModified. *)
C3_TimingDialApplied ==
  [][(last'.op = "control_change" /\ last'.a = 73 /\ Held # {}) =>
       /\ exc' = "none"
       /\ \A k \in Held :
            /\ k \in DOMAIN parameter_modified'
            /\ parameter_modified'[k]
            /\ offsets'[k[1]][k[2]] * 1000 * 30
                 = offsets[k[1]][k[2]] * 1000 * 30 + Delta(last'.b) * 100 * TimeUnits]_vars

(* C4: a velocity (71) or speed (72) dial_change with delta d while N >= 1 pads
   are held changes the routed parameter of every held pad by d/30, makes every
   held pad HeldModified and changes no parameter cell of a pad that is not held. *)
C4_ChordEdit ==
  [][(last'.op = "control_change" /\ last'.a \in {71, 72} /\ Held # {}) =>
       LET d == Delta(last'.b)
           add(r, k) == IF <<r, k>> \in Held THEN d * ParamUnits ELSE 0
       IN /\ exc' = "none"
          /\ DOMAIN parameter_modified' = Held
          /\ \A k \in Held : parameter_modified'[k]
          /\ \A r \in Slots, k \in Steps :
               IF last'.a = 71
               THEN /\ velocity'[r][k] * 30 = velocity[r][k] * 30 + add(r, k)
                    /\ speed'[r][k] = speed[r][k]
               ELSE /\ speed'[r][k] * 30 = speed[r][k] * 30 + add(r, k)
                    /\ velocity'[r][k] = velocity[r][k]
          /\ offsets' = offsets]_vars

C4_Witness ==
  /\ last.op = "control_change" /\ last.a = 71 /\ last.b = 70
  /\ Held = {<<0, 0>>, <<1, 0>>}
  /\ \A k \in Held : parameter_modified[k]
  /\ velocity[0][0] = ParamUnits - 58
  /\ velocity[1][0] = ParamUnits - 58
  /\ velocity[2][0] = ParamUnits

(* C5: every completed buffer cycle holds exactly `steps` master ticks, whatever
   toggles and timing dial events were handled; the reserved last pattern stays
   fully on and its table stays as constructed. *)
C5_MasterTick ==
  /\ done_cycle_ticks \in {-1, steps}
  /\ \A k \in Steps : pattern[master][k]
  /\ pattern_tables[master] = Constructed.pattern_tables[master]
  /\ Cardinality(pattern_tables[master]) = steps

C5_Witness ==
  /\ done_cycle_ticks = steps
  /\ pattern[0][0] /\ ~pattern[1][0]
  /\ prev_pattern[1][0]
  /\ n_dial > 0

(* C6: 0 <= pos < steps always; pos is written only by the master tick, which
   sets it to (pos + 1) mod steps; after `steps` ticks pos is what it was. *)
C6_StepCursor ==
  /\ [](pos \in Steps /\ (Len(pos_window) = steps => pos = pos_window[1]))
  /\ [][pos' # pos => (last'.op = "tick" /\ last'.b = 1 /\ pos' = (pos + 1) % steps)]_vars

C6_Witness ==
  /\ Len(pos_window) = steps
  /\ pos = 3
  /\ pos_window[1] = 3
  /\ last.op = "tick"

(* C7: toggle(sample, step) applied twice in a row returns is_on(sample, step) to
   its value before the first call and leaves every other (sample, step) as it was. *)
C7_ToggleInvolution ==
  [][(last'.op = "toggle" /\ last'.rep) => pattern' = prev_pattern]_vars

C7_Witness ==
  /\ last.op = "toggle" /\ last.rep
  /\ exc = "none"
  /\ pattern[last.a][last.b]
  /\ ~prev_pattern[last.a][last.b]
  /\ \E k \in Steps : k # last.b /\ pattern[last.a][k]

(* C8: activate(pattern, step) writes the marker at the index
   round(sample_rate * (step*time_per_step + offset)), rounded to the nearest
   sample, and marks the step on; step 0 with offset 0 lands on 0 and step 3
   on round(sample_rate*0.36). *)
C8_ActivateRounds ==
  (last.op = "activate" /\ exc = "none") =>
     /\ pattern[last.a][last.b]
     /\ Wrap(Round(sampling_rate * ((time_per_step * last.b) + offsets[last.a][last.b]),
                   TimeUnits)) \in pattern_tables[last.a]

(* C9: change_timing(pattern, step, by) on an active step clears the marker at the
   step's index before the call and sets the marker round(sample_rate * by/1000)
   samples away from it. *)
C9_TimingShift ==
  [][(last'.op = "change_timing" /\ pattern[last'.a][last'.b] /\ exc' = "none") =>
       LET old == TableIndex(Cur, last'.a, last'.b)
           shift == Round(sampling_rate * last'.c, TimeUnits)
       IN /\ Wrap(old + shift) \in pattern_tables'[last'.a]
          /\ shift # 0 => Wrap(old) \notin pattern_tables'[last'.a]]_vars

(* C10: no message to the device (pad colours, display lines, display text) is
   sent in the real-time clock context. *)
C10_NoDeviceWriteOnClock ==
  ~(out_ctx = "clock" /\ midi_out # <<>>)

(* C11: a failed load_sample raises NotFoundException and leaves the target slot
   as it was before the call - an empty slot stays empty, so a later trigger of
   that pattern is a no-op, and a slot that already held a voice keeps that
   voice - while the voices of all other slots, the patterns, the parameter
   matrices, the step cursor and the running clock are unchanged. *)
C11_FailedLoadKeepsSlot ==
  [][(last'.op = "load_sample" /\ last'.b = 0) =>
        /\ exc' = "NotFoundException"
        /\ samples' = samples
        /\ (samples[last'.a] = None => samples'[last'.a] = None)
        /\ UNCHANGED <<offsets, pattern, pattern_tables, velocity, speed, pos, cursor,
                       playing>>]_vars

C11_Witness ==
  /\ last.op = "load_sample" /\ last.b = 0
  /\ exc = "NotFoundException"
  /\ samples[last.a] # None
  /\ \E s \in Slots : s # last.a /\ samples[s] # None
  /\ Running # {}
  /\ cursor >= 0

(* C11 as stated: a failed load_sample leaves the target slot empty, also when
   the slot held a voice before, and everything else unchanged. *)
C11_FailedLoadEmptiesSlot ==
  [][(last'.op = "load_sample" /\ last'.b = 0) =>
        /\ exc' = "NotFoundException"
        /\ samples'[last'.a] = None
        /\ \A s \in Slots \ {last'.a} : samples'[s] = samples[s]
        /\ UNCHANGED <<offsets, pattern, pattern_tables, velocity, speed, pos, cursor,
                       playing>>]_vars

(* the error of the unknown-parameter path: the failed lookup of the name *)
UnknownParameter == "AttributeError"

(* C12: change_parameter and get_parameter_value called with a name other than
   velocity or speed, names of other Sampler attributes included, fail with the
   unknown-parameter error and mutate nothing; with velocity or speed they act
   on exactly that matrix. *)
C12_ClosedParameterNames ==
  [][(last'.op \in {"change_parameter", "get_parameter_value"}) =>
        IF ParamNames[last'.a] \in {"velocity", "speed"}
        THEN /\ exc' = "none"
             /\ ret' = IF ParamNames[last'.a] = "velocity"
                        THEN velocity'[last'.b][last'.c] ELSE speed'[last'.b][last'.c]
             /\ ParamNames[last'.a] = "velocity" => speed' = speed
             /\ ParamNames[last'.a] = "speed" => velocity' = velocity
        ELSE /\ exc' = UnknownParameter
             /\ UNCHANGED <<beatVars, samplerVars, parameter_modified>>]_vars

(* C13: after stop() has returned and until play() is called again no master
   tick and no sample trigger fires: pos does not advance, the read cursors
   stand still and no voice is commanded. *)
C13_StoppedIsSilent ==
  [][(transport = "stopped" /\ transport' = "stopped") =>
        /\ last'.op # "tick"
        /\ pos' = pos
        /\ cursor' = cursor
        /\ fired' = <<>>]_vars

C13_Witness ==
  /\ transport = "stopped"
  /\ Running = {}
  /\ cursor >= 0
  /\ last.op = "toggle"
  /\ samples[0] # None
  /\ pattern[0][0]
  /\ pos = 1

(* C14: for every note in 36..99 note-on and note-off dispatch pad_down and
   pad_release with (row, step) = ((note-36) div 8, (note-36) mod 8), both in
   0..7, and the LED mapping note = row*8 + step + 36 is the inverse in both
   directions; a note outside 36..99 dispatches nothing and changes no state. *)
C14_PadMapping ==
  /\ (last.op \in {"note_on", "note_off"} /\ probe \in 36 .. 99) =>
        LET row == (probe - 36) \div 8
            step == (probe - 36) % 8
        IN /\ row \in 0 .. 7 /\ step \in 0 .. 7
           /\ dispatched = << <<IF last.op = "note_on" THEN "pad_down" ELSE "pad_release",
                                 row, step>> >>
           /\ \A i \in DOMAIN midi_out :
                 midi_out[i].msg = "noteout" => midi_out[i].data[1] = probe
  /\ probe \notin 36 .. 99 =>
        /\ dispatched = <<>> \/ last.op = "control_change"
        /\ Held = {}
        /\ midi_out = <<>>
        /\ <<offsets, pattern, pattern_tables, samples, pos, velocity, speed>> =
           <<Constructed.offsets, Constructed.pattern, Constructed.pattern_tables,
             Constructed.samples, Constructed.pos, Constructed.velocity, Constructed.speed>>
  /\ \A row \in 0 .. 7, step \in 0 .. 7 :
        convert_midi_to_pad_position(convert_pad_position_to_midi(row, step)) = <<row, step>>
  /\ \A note \in 36 .. 99 :
        LET rs == convert_midi_to_pad_position(note)
        IN convert_pad_position_to_midi(rs[1], rs[2]) = note

C14_Witness ==
  /\ probe = 99
  /\ last.op = "note_off"
  /\ exc = "none"
  /\ dispatched = << <<"pad_release", 7, 7>> >>
  /\ pattern[7][7]
  /\ midi_out # <<>>

(* C15: for every data byte b in 0..127 control_change dispatches exactly one
   dial_change(dial_id, delta) with delta = b when b <= 63 and delta = b - 128
   when b >= 64, so delta lies in -64..63; byte 70 gives -58 and byte 10 gives 10. *)
C15_DialDelta ==
  (last.op = "control_change") =>
     LET delta == IF probe <= 63 THEN probe ELSE probe - 128
     IN /\ dispatched = << <<"dial_change", last.a, delta>> >>
        /\ delta \in -64 .. 63
        /\ probe = 70 => dispatched[1][3] = -58
        /\ probe = 10 => dispatched[1][3] = 10

C15_Witness ==
  /\ probe = 64
  /\ last.op = "control_change"
  /\ dispatched = << <<"dial_change", 71, -64>> >>
  /\ <<3, 4>> \in Held
  /\ velocity[3][4] = ParamUnits - 64

(* C16: after any sequence of activate, deactivate, toggle and change_timing the
   trigger buffer of a pattern holds a marker at the computed index of every
   step that is on and at no other index, also when two steps of the pattern
   map to the same index. *)
C16_BufferReflectsPattern ==
  \A p \in Slots :
     pattern_tables[p] = {Wrap(TableIndex(Cur, p, k)) : k \in {j \in Steps : pattern[p][j]}}

(* C17: whenever the trigger of sample pattern s fires for its active step k,
   the step cursor read by trigger() equals k, so the voice is commanded with
   velocity[s][k] and speed[s][k], for positive and negative timing offsets. *)
C17_TriggerReadsOwnStep ==
  \A i \in DOMAIN fired :
     \E k \in Steps :
        /\ pattern[fired[i][1]][k]
        /\ Wrap(TableIndex(Cur, fired[i][1], k)) = cursor
        /\ fired[i][2] = k

(* C18: a dial_change whose dial id routes to no parameter leaves a held pad
   unmodified, so that its release still toggles the step. *)
C18_UnroutedDialKeepsTap ==
  (/\ last.op = "note_off" /\ last.snap.held
   /\ \A i \in DOMAIN last.snap.dials : last.snap.dials[i][1] \notin {71, 72, 73}) =>
     LET pad == PadOf(last.a)
     IN /\ exc = "none"
        /\ pattern[pad[1]][pad[2]] = ~last.snap.on

(* C19: change_timing changes only the timing offset of the step: is_on of every
   step is the same after the call as before it. *)
C19_TimingKeepsOnOff ==
  [][(last'.op = "change_timing") => pattern' = pattern]_vars

(* C20: a pad_release for a pad that is not held is handled without raising and
   changes neither the held pads nor the patterns. *)
C20_StrayReleaseHandled ==
  (last.op = "note_off" /\ 36 <= last.a /\ last.a <= 99 /\ ~last.snap.held) =>
     /\ exc = "none"
     /\ pattern = prev_pattern

====
